---- MODULE Spec2Model ----
\* vLLM gateway (src/gateway.py) and its load balancer (src/load_balancer.py).
\*
\* Two programs are modelled.  The gateway authenticates a caller, checks the
\* daily quota, calls the upstream and logs usage against a SQLite store.  The
\* load balancer keeps per-gateway health flags and routed-request counters,
\* probes lazily and forwards every request to one selected gateway.
\*
\* Both are asyncio programs on one event loop each: a handler runs without
\* interruption from one `await` to the next, so one action of the model is
\* the code of one handler between two suspension points.
EXTENDS Integers, Sequences, FiniteSets, TLC

\* ------------------------------------------------------------------ bounds
NumGProcs == 2          \* gateway requests handled in one run
MaxDay == 2             \* last calendar day the clock reaches (it starts at 1)
MaxRate == 2            \* largest rate_limit of a stored or created credential
MaxUsage == 1           \* largest daily_usage found in the store at start-up
NumLProcs == 2          \* load-balancer requests handled in one run
StartTime == 45         \* time.time() when the load balancer starts
TickLen == 15           \* seconds between two readings of the clock
MaxTime == 90           \* last reading of the clock
MaxCount == 5           \* largest counter tried on select_gateway alone
MaxRouted == 1          \* requests given a backend in a run that never ends

\* --------------------------------------------------------- gateway: values
NULL == -1              \* SQL NULL in the last_used column

GProcs == 1..NumGProcs
Ids == {"id1"}
\* the secret generate_api_key() hands out with each id; ids are uuid4
\* strings and secrets start with "vllm_", so no id is ever a secret
KeyOf == [i \in Ids |-> "vllm_a"]
Secrets == {KeyOf[i] : i \in Ids}
\* what a request header can hold: nothing, the secret of a credential, or a
\* string that is the secret of none
HeaderValues == {"", "vllm_x"} \cup Secrets

VARIABLES
    api_keys,       \* table api_keys: a set of rows
    usage_logs,     \* table usage_logs: the sequence of inserted rows
    today,          \* the calendar day of the server clock
    gpc,            \* per request: where its handler stands
    gendpoint,      \* per request: the route it came in on
    gkey,           \* per request: client_key taken from the headers
    guser,          \* per request: user_info["id"] once the gate has passed
    gresp,          \* per request: status code sent to the caller
    gcalls,         \* per request: upstream calls issued
    gup,            \* per request: status the upstream answered (-1: no
                    \* answer yet, 0: the call raised)
    gstore,         \* per request: how the write of log_usage ended
    created         \* the secrets POST /api/v1/keys has handed out

gwvars == <<api_keys, usage_logs, today, gpc, gendpoint, gkey, guser, gresp,
            gcalls, gup, gstore, created>>

\* ================================================== load balancer: state
Gateways == <<"http://localhost:8001", "http://localhost:8002",
              "http://localhost:8003">>
GatewaySet == {Gateways[i] : i \in 1..Len(Gateways)}
health_check_interval == 30
\* slot 0 runs the startup event, slots 1..NumLProcs one request each
LProcs == 0..NumLProcs

VARIABLES
    health_status,      \* lb.health_status
    request_counts,     \* lb.request_counts
    last_health_check,  \* lb.last_health_check
    now,                \* time.time()
    lpc,                \* per handler: where it stands
    lkind,              \* per handler: startup, proxy or status (/health, /stats)
    lcur,               \* per handler: current_time of update_health_status
    lidx,               \* per handler: index of the gateway being probed
    lprobe,             \* per handler: how its last probe ended (-1: none yet)
    lsel,               \* per handler: the gateway select_gateway returned
    lresp,              \* per handler: status code sent to the caller
    lmin,               \* per handler: the counter its selection read (-1: none)
    lgateway,           \* per handler: the gateway its proxy_request was given
    lcalls,             \* per handler: upstream calls issued
    lup,                \* per handler: how its upstream call ended (-1: not yet)
    strategy_in,        \* select_gateway alone: the strategy it was given
    selected_out        \* select_gateway alone: what it returned

lbvars == <<health_status, request_counts, last_health_check, now, lpc, lkind,
            lcur, lidx, lprobe, lsel, lmin, lgateway, lresp, lcalls, lup,
            strategy_in, selected_out>>

vars == <<gwvars, lbvars>>

\* ------------------------------------------------------ gateway: the store
\* One row of api_keys (columns name, email, created_at carry no behaviour).
Row(i, rl, du, lu, act) ==
    [id |-> i, api_key |-> KeyOf[i], rate_limit |-> rl, daily_usage |-> du,
     last_used |-> lu, is_active |-> act]

\* (mutant) the lookup without `AND is_active = 1`
validate_api_key_any(table, api_key) ==
    {[id |-> r.id, rate_limit |-> r.rate_limit, daily_usage |-> r.daily_usage] :
        r \in {x \in table : x.api_key = api_key}}

\* SELECT ... WHERE api_key = ? AND is_active = 1; fetchone(); the dict built
\* from the row, or nothing.  The result is a set of at most one user_info.
validate_api_key(table, api_key) ==
    {[id |-> r.id, rate_limit |-> r.rate_limit, daily_usage |-> r.daily_usage] :
        r \in {x \in table : x.api_key = api_key /\ x.is_active}}

\* (mutant) the reset also on the day of last_used
ResetDue_sameday(r, date) == r.last_used # NULL /\ r.last_used <= date

\* `if last_used and last_used[0]` and the date comparison: the row is reset
\* when its last_used is set and lies on an earlier day than now.
ResetDue(r, date) == r.last_used # NULL /\ r.last_used < date

\* (mutant) `daily_usage <= rate_limit` as the last line
check_rate_limit_leq(table, api_key, date) ==
    LET result == {r \in table : r.api_key = api_key}
    IN  IF result = {}
        THEN [table |-> table, ok |-> FALSE]
        ELSE LET r == CHOOSE x \in result : TRUE
                 reset == ResetDue(r, date)
                 daily_usage == IF reset THEN 0 ELSE r.daily_usage
             IN  [table |-> IF reset
                            THEN {IF x.api_key = api_key
                                  THEN [x EXCEPT !.daily_usage = 0]
                                  ELSE x : x \in table}
                            ELSE table,
                  ok |-> daily_usage <= r.rate_limit]

\* check_rate_limit: the row is read, reset when a new day has begun, and
\* the usage is compared with the limit.
check_rate_limit(table, api_key, date) ==
    LET result == {r \in table : r.api_key = api_key}
    IN  IF result = {}
        THEN [table |-> table, ok |-> FALSE]
        ELSE LET r == CHOOSE x \in result : TRUE
                 reset == ResetDue(r, date)
                 daily_usage == IF reset THEN 0 ELSE r.daily_usage
             IN  [table |-> IF reset
                            THEN {IF x.api_key = api_key
                                  THEN [x EXCEPT !.daily_usage = 0]
                                  ELSE x : x \in table}
                            ELSE table,
                  ok |-> daily_usage < r.rate_limit]

\* UPDATE api_keys SET daily_usage = daily_usage + ?, last_used = now
\* WHERE api_key = ?;  INSERT INTO usage_logs.  The WHERE clause compares the
\* api_key column with the argument, whatever the caller passes.  (Of a
\* usage_logs row the columns id and timestamp are left out: nothing reads
\* them.)
log_usage(table, logs, api_key, endpoint, tokens_used, stamp) ==
    [table |-> {IF x.api_key = api_key
                THEN [x EXCEPT !.daily_usage = @ + tokens_used,
                               !.last_used = stamp]
                ELSE x : x \in table},
     logs |-> Append(logs, [api_key_id |-> api_key, endpoint |-> endpoint,
                            tokens_used |-> tokens_used])]

\* SQLite's CURRENT_TIMESTAMP is UTC while datetime.now() is the server's local
\* time: the day it stamps is the local day, the one before or the one after.
CURRENT_TIMESTAMP(date) == {date - 1, date, date + 1}

\* x-api-key first, then the bearer token of Authorization ("" when the header
\* is missing or is not "Bearer ...").
get_client_key(x_api_key, bearer) ==
    IF x_api_key # "" THEN x_api_key ELSE bearer

\* The gate of every proxied route: status 0 when it lets the request through.
validate_and_check_rate_limit(table, client_key, date) ==
    IF client_key = ""
    THEN [status |-> 401, table |-> table, user_info |-> {}]
    ELSE LET user_info == validate_api_key(table, client_key)
         IN  IF user_info = {}
             THEN [status |-> 401, table |-> table, user_info |-> {}]
             ELSE LET c == check_rate_limit(table, client_key, date)
                  IN  IF ~c.ok
                      THEN [status |-> 429, table |-> c.table, user_info |-> {}]
                      ELSE [status |-> 0, table |-> c.table,
                            user_info |-> user_info]

\* ------------------------------------------------- gateway: the handlers
\* Requests take the handler slots in order.
InFlight == {q \in GProcs : gpc[q] \in {"upstream", "body"}}

CanStart(p) ==
    /\ gpc[p] = "idle"
    /\ \A q \in GProcs : q < p => gpc[q] # "idle"

\* (mutant) the upstream call is issued before the gate has answered
Gate_call_first(p, endpoint, client_key, next) ==
    LET g == validate_and_check_rate_limit(api_keys, client_key, today)
    IN  /\ api_keys' = g.table
        /\ gendpoint' = [gendpoint EXCEPT ![p] = endpoint]
        /\ gkey' = [gkey EXCEPT ![p] = client_key]
        /\ gcalls' = [gcalls EXCEPT ![p] = IF next = "upstream" THEN 1 ELSE 0]
        /\ IF g.status = 0
           THEN /\ gpc' = [gpc EXCEPT ![p] = next]
                /\ guser' = [guser EXCEPT
                                ![p] = (CHOOSE u \in g.user_info : TRUE).id]
                /\ UNCHANGED gresp
           ELSE /\ gpc' = [gpc EXCEPT ![p] = "done"]
                /\ gresp' = [gresp EXCEPT ![p] = g.status]
                /\ UNCHANGED guser
        /\ UNCHANGED <<usage_logs, today, gup, gstore, created, lbvars>>

\* user_info = validate_and_check_rate_limit(request), the first statement of
\* the three proxied routes: an HTTPException ends the request, otherwise the
\* handler goes on to its next suspension point `next`.
Gate(p, endpoint, client_key, next) ==
    LET g == validate_and_check_rate_limit(api_keys, client_key, today)
    IN  /\ api_keys' = g.table
        /\ gendpoint' = [gendpoint EXCEPT ![p] = endpoint]
        /\ gkey' = [gkey EXCEPT ![p] = client_key]
        /\ IF g.status = 0
           THEN /\ gpc' = [gpc EXCEPT ![p] = next]
                /\ guser' = [guser EXCEPT
                                ![p] = (CHOOSE u \in g.user_info : TRUE).id]
                /\ gcalls' = [gcalls EXCEPT
                                ![p] = IF next = "upstream" THEN 1 ELSE 0]
                /\ UNCHANGED gresp
           ELSE /\ gpc' = [gpc EXCEPT ![p] = "done"]
                /\ gresp' = [gresp EXCEPT ![p] = g.status]
                /\ UNCHANGED <<guser, gcalls>>
        /\ UNCHANGED <<usage_logs, today, gup, gstore, created, lbvars>>

\* What the awaited client.get() of get_models can bring back.
UpstreamStatuses == {200, 503}
UpstreamOutcomes ==
    {[error |-> TRUE, status |-> 0, json |-> FALSE]}
    \cup {[error |-> FALSE, status |-> s, json |-> j] :
            s \in UpstreamStatuses, j \in BOOLEAN}

\* GET /v1/models up to `await client.get(...)`.
get_models(p) ==
    /\ CanStart(p)
    /\ \E x \in HeaderValues, b \in HeaderValues :
          Gate(p, "/v1/models", get_client_key(x, b), "upstream")

\* GET /v1/models from the return of client.get() to the response:
\* log_usage(user_info["id"], "/v1/models", 0), then response.json(); any
\* exception inside the try block becomes HTTP 500.  store_ok = FALSE is a
\* store write that raises (nothing is committed).
get_models_response(p) ==
    /\ gpc[p] = "upstream"
    /\ gendpoint[p] = "/v1/models"
    /\ \E o \in UpstreamOutcomes, store_ok \in BOOLEAN,
          stamp \in CURRENT_TIMESTAMP(today) :
          LET l == log_usage(api_keys, usage_logs, guser[p], "/v1/models", 0,
                             stamp)
              logged == ~o.error /\ store_ok
          IN  /\ api_keys' = IF logged THEN l.table ELSE api_keys
              /\ usage_logs' = IF logged THEN l.logs ELSE usage_logs
              /\ gup' = [gup EXCEPT ![p] = o.status]
              /\ gstore' = [gstore EXCEPT
                              ![p] = IF o.error THEN ""
                                     ELSE IF store_ok THEN "ok" ELSE "failed"]
              /\ gresp' = [gresp EXCEPT
                             ![p] = IF logged /\ o.json THEN o.status ELSE 500]
    /\ gpc' = [gpc EXCEPT ![p] = "done"]
    /\ UNCHANGED <<today, gendpoint, gkey, guser, gcalls, created, lbvars>>

\* POST /v1/chat/completions up to `await request.body()`.
chat_completions(p) ==
    /\ CanStart(p)
    /\ \E x \in HeaderValues, b \in HeaderValues :
          Gate(p, "/v1/chat/completions", get_client_key(x, b), "body")

\* POST /v1/chat/completions after the body has arrived.  The first statement
\* of the try block is json.loads(body), and the module never imports json:
\* the NameError is caught by `except Exception` and answered with HTTP 500
\* before client.post() is reached.
chat_completions_body(p) ==
    /\ gpc[p] = "body"
    /\ gendpoint[p] = "/v1/chat/completions"
    /\ gpc' = [gpc EXCEPT ![p] = "done"]
    /\ gresp' = [gresp EXCEPT ![p] = 500]
    /\ UNCHANGED <<api_keys, usage_logs, today, gendpoint, gkey, guser,
                   gcalls, gup, gstore, created, lbvars>>

\* POST /v1/completions up to `await request.body()`.
completions(p) ==
    /\ CanStart(p)
    /\ \E x \in HeaderValues, b \in HeaderValues :
          Gate(p, "/v1/completions", get_client_key(x, b), "body")

\* POST /v1/completions after the body has arrived: json.loads raises the
\* same NameError, answered with HTTP 500.
completions_body(p) ==
    /\ gpc[p] = "body"
    /\ gendpoint[p] = "/v1/completions"
    /\ gpc' = [gpc EXCEPT ![p] = "done"]
    /\ gresp' = [gresp EXCEPT ![p] = 500]
    /\ UNCHANGED <<api_keys, usage_logs, today, gendpoint, gkey, guser,
                   gcalls, gup, gstore, created, lbvars>>

\* (mutant) the row is inserted with is_active = 0
create_api_key_inactive(i, rate_limit) ==
    /\ \A r \in api_keys : r.id # i
    /\ api_keys' = api_keys \cup {Row(i, rate_limit, 0, NULL, FALSE)}
    /\ created' = created \cup {KeyOf[i]}
    /\ UNCHANGED <<usage_logs, today, gpc, gendpoint, gkey, guser, gresp,
                   gcalls, gup, gstore, lbvars>>

\* POST /api/v1/keys: a fresh id and secret, the given rate_limit, and the
\* column defaults daily_usage 0, last_used NULL, is_active 1.
create_api_key(i, rate_limit) ==
    /\ \A r \in api_keys : r.id # i
    /\ api_keys' = api_keys \cup {Row(i, rate_limit, 0, NULL, TRUE)}
    /\ created' = created \cup {KeyOf[i]}
    /\ UNCHANGED <<usage_logs, today, gpc, gendpoint, gkey, guser, gresp,
                   gcalls, gup, gstore, lbvars>>

\* Midnight passes on the server clock.
NextDay ==
    /\ today < MaxDay
    /\ today' = today + 1
    /\ UNCHANGED <<api_keys, usage_logs, gpc, gendpoint, gkey, guser, gresp,
                   gcalls, gup, gstore, created, lbvars>>

\* The store is a file that outlives the process (init_database only creates
\* the tables IF NOT EXISTS): at start-up it holds whatever rows it held
\* before, here none or one row with any column values (last_used was
\* stamped in UTC, so it may lie ahead of the local day).
StoredRows ==
    {Row("id1", rl, du, lu, act) :
        rl \in 0..MaxRate, du \in 0..MaxUsage, lu \in {NULL} \cup 0..MaxDay,
        act \in BOOLEAN}

GwIdle ==
    /\ usage_logs = <<>>
    /\ today = 1
    /\ gpc = [p \in GProcs |-> "idle"]
    /\ gendpoint = [p \in GProcs |-> ""]
    /\ gkey = [p \in GProcs |-> ""]
    /\ guser = [p \in GProcs |-> ""]
    /\ gresp = [p \in GProcs |-> 0]
    /\ gcalls = [p \in GProcs |-> 0]
    /\ gup = [p \in GProcs |-> -1]
    /\ gstore = [p \in GProcs |-> ""]
    /\ created = {}

GwInit ==
    /\ api_keys \in {{}} \cup {{r} : r \in StoredRows}
    /\ GwIdle

\* the gateway as the other specifications hold it: an empty store, no request
GwQuiet ==
    /\ api_keys = {}
    /\ GwIdle

GwNext ==
    \/ \E p \in GProcs : get_models(p)
    \/ \E p \in GProcs : get_models_response(p)
    \/ \E p \in GProcs : chat_completions(p)
    \/ \E p \in GProcs : chat_completions_body(p)
    \/ \E p \in GProcs : completions(p)
    \/ \E p \in GProcs : completions_body(p)
    \/ \E i \in Ids, rl \in 0..MaxRate : create_api_key(i, rl)
    \/ NextDay


\* ------------------------------------------- load balancer: LoadBalancer
\* What a probe GET {gateway}/health can end with: 0 is an exception
\* (timeout, connection error), otherwise the status code.
ProbeOutcomes == {0, 200, 503}

\* (mutant) any answer counts as healthy
health_check_any_answer(outcome) == outcome # 0

\* LoadBalancer.health_check: True only for a 200 answer.
health_check(outcome) == outcome = 200

\* (mutant) the list without the filter
get_healthy_gateways_all(hs) == Gateways

\* [gateway for gateway in self.gateways if self.health_status[gateway]]
get_healthy_gateways(hs) == SelectSeq(Gateways, LAMBDA g : hs[g])

\* Python's min(seq, key=...): the first element with the smallest key.
RECURSIVE MinFrom(_, _, _, _)
MinFrom(seq, i, best, counts) ==
    IF i > Len(seq) THEN best
    ELSE MinFrom(seq, i + 1,
                 IF counts[seq[i]] < counts[best] THEN seq[i] ELSE best,
                 counts)

\* (mutant) max() in place of min(): the first element with the largest key
PyMin_max(seq, counts) ==
    LET top == CHOOSE g \in {seq[i] : i \in 1..Len(seq)} :
                   \A i \in 1..Len(seq) : counts[seq[i]] <= counts[g]
        firsts == {i \in 1..Len(seq) : counts[seq[i]] = counts[top]}
    IN  seq[CHOOSE i \in firsts : \A j \in firsts : i <= j]

\* (mutant) the last element with the smallest key
PyMin_last(seq, counts) ==
    LET m == MinFrom(seq, 2, seq[1], counts)
        ties == {i \in 1..Len(seq) : counts[seq[i]] = counts[m]}
    IN  seq[CHOOSE i \in ties : \A j \in ties : j <= i]

PyMin(seq, counts) == MinFrom(seq, 2, seq[1], counts)

\* (mutant) the counter of the returned gateway is not incremented
select_gateway_no_increment(strategy, hs, counts) ==
    LET healthy_gateways == get_healthy_gateways(hs)
        least == PyMin(healthy_gateways, counts)
        counted == [status |-> 0, selected |-> least, counts |-> counts]
    IN  IF healthy_gateways = <<>>
        THEN {[status |-> 503, selected |-> "", counts |-> counts]}
        ELSE IF strategy = "random"
        THEN {[status |-> 0, selected |-> healthy_gateways[i],
               counts |-> counts] : i \in 1..Len(healthy_gateways)}
        ELSE {counted}

\* (mutant) the random strategy counts its pick like the other strategies
select_gateway_random_counted(strategy, hs, counts) ==
    LET healthy_gateways == get_healthy_gateways(hs)
        least == PyMin(healthy_gateways, counts)
        counted == [status |-> 0, selected |-> least,
                    counts |-> [counts EXCEPT ![least] = @ + 1]]
    IN  IF healthy_gateways = <<>>
        THEN {[status |-> 503, selected |-> "", counts |-> counts]}
        ELSE IF strategy = "random"
        THEN {[status |-> 0, selected |-> healthy_gateways[i],
               counts |-> [counts EXCEPT ![healthy_gateways[i]] = @ + 1]] :
                  i \in 1..Len(healthy_gateways)}
        ELSE {counted}

\* LoadBalancer.select_gateway: the set of results it can produce, each the
\* status raised (0 for none), the gateway returned and the counters left.
\* random.choice makes the random strategy the only one with several results.
select_gateway(strategy, hs, counts) ==
    LET healthy_gateways == get_healthy_gateways(hs)
        least == PyMin(healthy_gateways, counts)
        counted == [status |-> 0, selected |-> least,
                    counts |-> [counts EXCEPT ![least] = @ + 1]]
    IN  IF healthy_gateways = <<>>
        THEN {[status |-> 503, selected |-> "", counts |-> counts]}
        ELSE IF strategy = "round_robin" THEN {counted}
        ELSE IF strategy = "random"
        THEN {[status |-> 0, selected |-> healthy_gateways[i],
               counts |-> counts] : i \in 1..Len(healthy_gateways)}
        ELSE IF strategy = "least_connections" THEN {counted}
        ELSE {counted}

\* (mutant) a probe already when the interval has just elapsed
Due_geq(g, current_time, lhc) == current_time - lhc[g] >= health_check_interval

\* The loop of update_health_status from position i on: the index of the next
\* gateway that is due for a probe, 0 when the loop runs to its end.
Due(g, current_time, lhc) == current_time - lhc[g] > health_check_interval

RECURSIVE NextDue(_, _, _)
NextDue(i, current_time, lhc) ==
    IF i > Len(Gateways) THEN 0
    ELSE IF Due(Gateways[i], current_time, lhc) THEN i
    ELSE NextDue(i + 1, current_time, lhc)

\* --------------------------------------------- load balancer: the handlers
\* What a handler does once update_health_status has returned.  The startup
\* event ends; /health and /stats answer 200; proxy_all calls
\* select_gateway(strategy="round_robin") and, with a gateway in hand, goes on
\* to the awaited upstream call of proxy_request.  The HTTPException(503) of
\* select_gateway is caught by proxy_all's `except Exception` and raised
\* again as 503.
Route(p, kind, hs) ==
    IF kind = "proxy"
    THEN \E r \in select_gateway("round_robin", hs, request_counts) :
            /\ request_counts' = r.counts
            /\ lsel' = [lsel EXCEPT ![p] = r.selected]
            /\ IF r.status = 0
               THEN /\ lpc' = [lpc EXCEPT ![p] = "upstream"]
                    /\ lmin' = [lmin EXCEPT
                                  ![p] = request_counts[r.selected]]
                    /\ lgateway' = [lgateway EXCEPT ![p] = r.selected]
                    /\ lcalls' = [lcalls EXCEPT ![p] = @ + 1]
                    /\ UNCHANGED lresp
               ELSE /\ lpc' = [lpc EXCEPT ![p] = "done"]
                    /\ lresp' = [lresp EXCEPT ![p] = 503]
                    /\ UNCHANGED <<lmin, lgateway, lcalls>>
    ELSE /\ lpc' = [lpc EXCEPT ![p] = "done"]
         /\ lresp' = [lresp EXCEPT ![p] = IF kind = "startup" THEN 0 ELSE 200]
         /\ UNCHANGED <<request_counts, lsel, lmin, lgateway, lcalls>>

\* (mutant) the probe time is written when the probe is issued
Refresh_stamp_at_issue(p, kind, current_time, i, hs, lhc) ==
    LET j == NextDue(i, current_time, lhc)
    IN  /\ health_status' = hs
        /\ last_health_check' =
              IF j # 0 THEN [lhc EXCEPT ![Gateways[j]] = current_time] ELSE lhc
        /\ lkind' = [lkind EXCEPT ![p] = kind]
        /\ lcur' = [lcur EXCEPT ![p] = current_time]
        /\ lidx' = [lidx EXCEPT ![p] = j]
        /\ IF j # 0
           THEN /\ lpc' = [lpc EXCEPT ![p] = "probing"]
                /\ UNCHANGED <<request_counts, lsel, lmin, lgateway, lresp,
                               lcalls>>
           ELSE Route(p, kind, hs)
        /\ UNCHANGED <<now, lup, strategy_in, selected_out, gwvars>>

\* update_health_status from loop position i on, with the health flags hs and
\* probe times lhc as they stand: it suspends at the next gateway that is due
\* (`await self.health_check(gateway)`), or returns to its caller.
Refresh(p, kind, current_time, i, hs, lhc) ==
    LET j == NextDue(i, current_time, lhc)
    IN  /\ health_status' = hs
        /\ last_health_check' = lhc
        /\ lkind' = [lkind EXCEPT ![p] = kind]
        /\ lcur' = [lcur EXCEPT ![p] = current_time]
        /\ lidx' = [lidx EXCEPT ![p] = j]
        /\ IF j # 0
           THEN /\ lpc' = [lpc EXCEPT ![p] = "probing"]
                /\ UNCHANGED <<request_counts, lsel, lmin, lgateway, lresp,
                               lcalls>>
           ELSE Route(p, kind, hs)
        /\ UNCHANGED <<now, lup, strategy_in, selected_out, gwvars>>

\* Requests are served once the startup event has run, slot after slot.
CanStartL(p) ==
    /\ p # 0
    /\ lpc[p] = "idle"
    /\ lpc[0] = "done"
    /\ \A q \in LProcs : (q # 0 /\ q < p) => lpc[q] # "idle"

\* @app.on_event("startup")
startup_event ==
    /\ lpc[0] = "idle"
    /\ Refresh(0, "startup", now, 1, health_status, last_health_check)
    /\ UNCHANGED lprobe

\* GET /health of the load balancer
lb_health_check(p) ==
    /\ CanStartL(p)
    /\ Refresh(p, "status", now, 1, health_status, last_health_check)
    /\ UNCHANGED lprobe

\* GET /stats
get_stats(p) ==
    /\ CanStartL(p)
    /\ Refresh(p, "status", now, 1, health_status, last_health_check)
    /\ UNCHANGED lprobe

\* any other route
proxy_all(p) ==
    /\ CanStartL(p)
    /\ Refresh(p, "proxy", now, 1, health_status, last_health_check)
    /\ UNCHANGED lprobe

\* (mutant) a probe result is dropped when the backend has been stamped by a
\* refresh that started at the same time or later
update_health_status_fresh_only(p) ==
    /\ lpc[p] = "probing"
    /\ \E o \in ProbeOutcomes :
          LET gateway == Gateways[lidx[p]]
              fresh == last_health_check[gateway] < lcur[p]
          IN  /\ lprobe' = [lprobe EXCEPT ![p] = o]
              /\ Refresh(p, lkind[p], lcur[p], lidx[p] + 1,
                         IF fresh
                         THEN [health_status EXCEPT
                                  ![gateway] = health_check(o)]
                         ELSE health_status,
                         [last_health_check EXCEPT ![gateway] = lcur[p]])

\* (mutant) a backend that was marked unhealthy stays so: a probe result only
\* ever takes the flag down
update_health_status_sticky(p) ==
    /\ lpc[p] = "probing"
    /\ \E o \in ProbeOutcomes :
          LET gateway == Gateways[lidx[p]]
          IN  /\ lprobe' = [lprobe EXCEPT ![p] = o]
              /\ Refresh(p, lkind[p], lcur[p], lidx[p] + 1,
                         [health_status EXCEPT
                            ![gateway] = @ /\ health_check(o)],
                         [last_health_check EXCEPT ![gateway] = lcur[p]])

\* The probe of a suspended update_health_status returns: the health flag and
\* the probe time of that gateway are written (the time is the current_time
\* read when the handler started), and the loop goes on.
update_health_status(p) ==
    /\ lpc[p] = "probing"
    /\ \E o \in ProbeOutcomes :
          LET gateway == Gateways[lidx[p]]
          IN  /\ lprobe' = [lprobe EXCEPT ![p] = o]
              /\ Refresh(p, lkind[p], lcur[p], lidx[p] + 1,
                         [health_status EXCEPT ![gateway] = health_check(o)],
                         [last_health_check EXCEPT ![gateway] = lcur[p]])

\* What the awaited client.request() of proxy_request can end with: 0 is an
\* exception, otherwise the status code of the gateway's answer.
ProxyOutcomes == {0, 200, 500}

\* (mutant) the counter is released when the upstream call has ended
proxy_request_release(p) ==
    /\ lpc[p] = "upstream"
    /\ \E o \in ProxyOutcomes :
          /\ lup' = [lup EXCEPT ![p] = o]
          /\ lresp' = [lresp EXCEPT ![p] = IF o = 0 THEN 503 ELSE o]
    /\ lpc' = [lpc EXCEPT ![p] = "done"]
    /\ request_counts' = [request_counts EXCEPT ![lsel[p]] = @ - 1]
    /\ UNCHANGED <<health_status, last_health_check, now, lkind, lcur, lidx,
                   lprobe, lsel, lmin, lgateway, lcalls, strategy_in,
                   selected_out, gwvars>>

\* (mutant) a failed upstream call is tried once more
proxy_request_retry(p) ==
    /\ lpc[p] = "upstream"
    /\ \E o \in ProxyOutcomes :
          /\ lup' = [lup EXCEPT ![p] = o]
          /\ IF o = 0 /\ lcalls[p] < 2
             THEN /\ lcalls' = [lcalls EXCEPT ![p] = @ + 1]
                  /\ UNCHANGED <<lpc, lresp>>
             ELSE /\ lresp' = [lresp EXCEPT ![p] = IF o = 0 THEN 503 ELSE o]
                  /\ lpc' = [lpc EXCEPT ![p] = "done"]
                  /\ UNCHANGED lcalls
    /\ UNCHANGED <<health_status, request_counts, last_health_check, now,
                   lkind, lcur, lidx, lprobe, lsel, lmin, lgateway,
                   strategy_in, selected_out, gwvars>>

\* proxy_request after client.request(): the answer is passed on with its
\* status code; an exception raises HTTPException(502), which proxy_all's
\* `except Exception` catches and turns into 503.
proxy_request(p) ==
    /\ lpc[p] = "upstream"
    /\ \E o \in ProxyOutcomes :
          /\ lup' = [lup EXCEPT ![p] = o]
          /\ lresp' = [lresp EXCEPT ![p] = IF o = 0 THEN 503 ELSE o]
    /\ lpc' = [lpc EXCEPT ![p] = "done"]
    /\ UNCHANGED <<health_status, request_counts, last_health_check, now,
                   lkind, lcur, lidx, lprobe, lsel, lmin, lgateway, lcalls,
                   strategy_in, selected_out, gwvars>>

\* The clock is read later.
Tick ==
    /\ now + TickLen <= MaxTime
    /\ now' = now + TickLen
    /\ UNCHANGED <<health_status, request_counts, last_health_check, lpc,
                   lkind, lcur, lidx, lprobe, lsel, lmin, lgateway, lresp,
                   lcalls, lup, strategy_in, selected_out, gwvars>>

\* no handler has run
LbIdle ==
    /\ last_health_check = [g \in GatewaySet |-> 0]
    /\ now = StartTime
    /\ lpc = [p \in LProcs |-> "idle"]
    /\ lkind = [p \in LProcs |-> ""]
    /\ lcur = [p \in LProcs |-> 0]
    /\ lidx = [p \in LProcs |-> 0]
    /\ lprobe = [p \in LProcs |-> -1]
    /\ lsel = [p \in LProcs |-> ""]
    /\ lmin = [p \in LProcs |-> -1]
    /\ lgateway = [p \in LProcs |-> ""]
    /\ lresp = [p \in LProcs |-> 0]
    /\ lcalls = [p \in LProcs |-> 0]
    /\ lup = [p \in LProcs |-> -1]
    /\ strategy_in = ""
    /\ selected_out = [status |-> 0, selected |-> ""]

\* LoadBalancer.__init__
LbInit ==
    /\ health_status = [g \in GatewaySet |-> TRUE]
    /\ request_counts = [g \in GatewaySet |-> 0]
    /\ LbIdle

LbNext ==
    \/ startup_event
    \/ \E p \in LProcs : lb_health_check(p)
    \/ \E p \in LProcs : get_stats(p)
    \/ \E p \in LProcs : proxy_all(p)
    \/ \E p \in LProcs : update_health_status(p)
    \/ \E p \in LProcs : proxy_request(p)
    \/ Tick

\* ------------------------------------------------- select_gateway alone
Strategies == {"round_robin", "least_connections", "random", "weighted"}

\* select_gateway applied once to any health flags and counters.
SelInit ==
    /\ LbIdle
    /\ health_status \in [GatewaySet -> BOOLEAN]
    /\ request_counts \in [GatewaySet -> 0..MaxCount]

SelectOnce(strategy) ==
    /\ strategy_in = ""
    /\ strategy_in' = strategy
    /\ \E r \in select_gateway(strategy, health_status, request_counts) :
          /\ request_counts' = r.counts
          /\ selected_out' = [status |-> r.status, selected |-> r.selected]
    /\ UNCHANGED <<health_status, last_health_check, now, lpc, lkind, lcur,
                   lidx, lprobe, lsel, lmin, lgateway, lresp, lcalls, lup,
                   gwvars>>

SelNext == \E strategy \in Strategies : SelectOnce(strategy)

\* ------------------------------------------------------- specifications
\* the gateway
Init == GwInit /\ LbInit
Spec == Init /\ [][GwNext]_vars

\* the gateway with one client that sends its calls one after the other
SeqNext ==
    \/ \E p \in GProcs : InFlight = {} /\ get_models(p)
    \/ \E p \in GProcs : get_models_response(p)
    \/ \E p \in GProcs : InFlight = {} /\ chat_completions(p)
    \/ \E p \in GProcs : chat_completions_body(p)
    \/ \E p \in GProcs : InFlight = {} /\ completions(p)
    \/ \E p \in GProcs : completions_body(p)
    \/ \E i \in Ids, rl \in 0..MaxRate : create_api_key(i, rl)
    \/ NextDay

SpecSeq == Init /\ [][SeqNext]_vars

\* the load balancer
InitLB == GwQuiet /\ LbInit
SpecLB == InitLB /\ [][LbNext]_vars

\* select_gateway as a function of its inputs
InitSelect == GwQuiet /\ SelInit
SpecSelect == InitSelect /\ [][SelNext]_vars

\* sum(lb.request_counts.values())
RECURSIVE SumCounts(_, _)
SumCounts(counts, i) ==
    IF i > Len(Gateways) THEN 0
    ELSE counts[Gateways[i]] + SumCounts(counts, i + 1)

\* the load balancer serving requests without end
\* The handler of slot p has returned; the slot takes the next request.
Recycle(p) ==
    /\ p # 0
    /\ lpc[p] = "done"
    /\ lpc' = [lpc EXCEPT ![p] = "idle"]
    /\ lkind' = [lkind EXCEPT ![p] = ""]
    /\ lcur' = [lcur EXCEPT ![p] = 0]
    /\ lidx' = [lidx EXCEPT ![p] = 0]
    /\ lprobe' = [lprobe EXCEPT ![p] = -1]
    /\ lsel' = [lsel EXCEPT ![p] = ""]
    /\ lmin' = [lmin EXCEPT ![p] = -1]
    /\ lgateway' = [lgateway EXCEPT ![p] = ""]
    /\ lresp' = [lresp EXCEPT ![p] = 0]
    /\ lcalls' = [lcalls EXCEPT ![p] = 0]
    /\ lup' = [lup EXCEPT ![p] = -1]
    /\ UNCHANGED <<health_status, request_counts, last_health_check, now,
                   strategy_in, selected_out, gwvars>>

\* The last time the clock shows before it would pass MaxTime.
Latest == StartTime + ((MaxTime - StartTime) \div TickLen) * TickLen

\* A time of the past, one tick further back.  A refresh that is running
\* started at Latest or one tick before, so the times up to Oldest are due
\* alike for every refresh and are all kept as 0.
Oldest == Latest - TickLen - health_check_interval - 1
Recede(t) == IF t - TickLen > Oldest THEN t - TickLen ELSE 0

\* The clock goes on by one tick.  A probe has a timeout of 5 s and a refresh
\* makes three at most, so a refresh that was running at the last tick is over
\* before the next.  Once the clock stands at Latest it is the past that
\* recedes: every recorded time moves one tick back, which keeps the
\* differences update_health_status compares with the interval.
Elapse ==
    /\ \A p \in LProcs : lpc[p] = "probing" => lcur[p] = now
    /\ IF now + TickLen <= MaxTime
       THEN /\ now' = now + TickLen
            /\ UNCHANGED <<last_health_check, lcur>>
       ELSE /\ now' = now
            /\ last_health_check' =
                  [g \in GatewaySet |-> Recede(last_health_check[g])]
            /\ lcur' = [p \in LProcs |-> Recede(lcur[p])]
    /\ UNCHANGED <<health_status, request_counts, lpc, lkind, lidx, lprobe,
                   lsel, lmin, lgateway, lresp, lcalls, lup, strategy_in,
                   selected_out, gwvars>>

\* proxy_all, for as long as fewer than MaxRouted requests were given a
\* backend or are about to be (the counters grow without end otherwise)
proxy_all_bounded(p) ==
    /\ SumCounts(request_counts, 1)
          + Cardinality({q \in LProcs :
                            lkind[q] = "proxy" /\ lpc[q] = "probing"})
          < MaxRouted
    /\ proxy_all(p)

\* The endless run serves its requests one after the other: the startup
\* event and one request slot, taken again and again.
LiveProcs == {0, 1}

LiveNext ==
    \/ startup_event
    \/ \E p \in LiveProcs : lb_health_check(p)
    \/ \E p \in LiveProcs : get_stats(p)
    \/ \E p \in LiveProcs : proxy_all_bounded(p)
    \/ \E p \in LiveProcs : update_health_status(p)
    \/ \E p \in LiveProcs : proxy_request(p)
    \/ \E p \in LiveProcs : Recycle(p)
    \/ Elapse

\* Every awaited call ends (the probe has a timeout of 5 s, the upstream call
\* one of 60 s), the startup event runs, and the clock goes on.
LiveFairness ==
    /\ WF_vars(startup_event)
    /\ \A p \in LProcs : WF_vars(update_health_status(p))
    /\ \A p \in LProcs : WF_vars(proxy_request(p))
    /\ WF_vars(Elapse)

InitLive == GwQuiet /\ LbInit
SpecLive == InitLive /\ [][LiveNext]_vars /\ LiveFairness

\* ================================================== claims on the gateway
\* The rows a request's client_key names, active or not.
RowsOf(table, client_key) == {r \in table : r.api_key = client_key}
ActiveRowsOf(table, client_key) ==
    {r \in RowsOf(table, client_key) : r.is_active}

\* Handler p runs the gate in this step / is let through by it.
GateStep(p) == gpc[p] = "idle" /\ gpc'[p] # "idle"
Admitted(p) == gpc[p] \in {"upstream", "body"} \/ (gpc[p] = "done" /\ gresp[p] \notin {401, 429})

\* The routes whose cost is the token estimate len(str(request))//4 +
\* len(str(response))//4, at least 1 for any upstream answer of four
\* characters or more.
TokenRoutes == {"/v1/chat/completions", "/v1/completions"}

\* C1: end-to-end daily quota.  The calls of one credential that are let
\* through on one day stop once their costs have reached rate_limit: with
\* calls that cost at least 1 each, sent one after the other on the first day,
\* no more than rate_limit of them get past the gate (the next one is
\* answered 429).
C1_DailyQuota ==
    today = 1 =>
        \A r \in api_keys :
            Cardinality({p \in GProcs : /\ Admitted(p)
                                        /\ guser[p] = r.id
                                        /\ gendpoint[p] \in TokenRoutes})
                <= r.rate_limit

\* C2: record_usage.  Once a call that was authenticated with a credential has
\* been answered by the upstream and passed on, one usage record names that
\* credential and the credential's last_used holds the time of the call.
C2_UsageRecorded ==
    \A p \in GProcs :
        (gpc[p] = "done" /\ gresp[p] \in UpstreamStatuses) =>
            /\ \E i \in 1..Len(usage_logs) :
                  /\ usage_logs[i].api_key_id = guser[p]
                  /\ usage_logs[i].endpoint = gendpoint[p]
            /\ \A r \in api_keys : r.id = guser[p] => r.last_used # NULL

\* C3: a request that names an active credential is let through if and only
\* if the stored daily_usage, after the day-boundary reset, is below
\* rate_limit; otherwise it is answered 429.
C3_AdmitIffBelowLimit ==
    [][\A p \in GProcs :
          GateStep(p) =>
              \A r \in ActiveRowsOf(api_keys', gkey'[p]) :
                  /\ (r.daily_usage < r.rate_limit) <=>
                        (gpc'[p] \in {"upstream", "body"} /\ gresp'[p] = 0)
                  /\ (r.daily_usage >= r.rate_limit) <=>
                        (gpc'[p] = "done" /\ gresp'[p] = 429)]_vars

\* a request is answered 429 on one day and, with the same credential (whose
\* rate_limit is positive), another is let through
C3_Witness ==
    \E p, q \in GProcs :
        /\ gresp[p] = 429
        /\ gkey[q] = gkey[p]
        /\ gpc[q] \in {"upstream", "body"}
        /\ \E r \in ActiveRowsOf(api_keys, gkey[p]) :
              r.daily_usage < r.rate_limit

\* C4: a request that reaches the admit check (its secret names an active
\* credential) with last_used on an earlier day finds daily_usage stored as 0
\* before the comparison, whatever it was, and is let through when rate_limit
\* is positive; with last_used on the current day the row is left as it is.
C4_DayBoundaryReset ==
    [][\A p \in GProcs :
          GateStep(p) =>
              \A r \in ActiveRowsOf(api_keys, gkey'[p]) :
                  /\ (r.last_used # NULL /\ r.last_used < today) =>
                        /\ api_keys' = (api_keys \ {r})
                                          \cup {[r EXCEPT !.daily_usage = 0]}
                        /\ r.rate_limit > 0 =>
                              (gpc'[p] \in {"upstream", "body"} /\ gresp'[p] = 0)
                  /\ (r.last_used = today) => api_keys' = api_keys]_vars

\* a credential with a positive rate_limit had a request answered 429 (its
\* daily_usage had reached rate_limit) and later has one let through with
\* daily_usage stored as 0
C4_Witness ==
    \E p, q \in GProcs :
        /\ gresp[p] = 429
        /\ gkey[q] = gkey[p]
        /\ gpc[q] \in {"upstream", "body"}
        /\ \E r \in ActiveRowsOf(api_keys, gkey[p]) :
              /\ r.rate_limit > 0
              /\ r.daily_usage = 0
              /\ r.last_used # NULL
              /\ r.last_used < today

\* C5: a request whose secret is missing, names no credential or names an
\* inactive one is answered 401, whatever the row holds: never 429, never let
\* through, and the store is left as it is.
C5_Unauthenticated ==
    [][\A p \in GProcs :
          (GateStep(p) /\ ActiveRowsOf(api_keys, gkey'[p]) = {}) =>
              /\ gpc'[p] = "done"
              /\ gresp'[p] = 401
              /\ api_keys' = api_keys]_vars

\* an inactive credential that is over its quota, with last_used on an
\* earlier day, was presented and answered 401
C5_Witness ==
    \E p \in GProcs :
        /\ gresp[p] = 401
        /\ \E r \in RowsOf(api_keys, gkey[p]) :
              /\ ~r.is_active
              /\ r.daily_usage >= r.rate_limit
              /\ r.last_used # NULL
              /\ r.last_used < today

\* C6: a request answered 401 or 429 has issued no upstream call and never
\* issues one, and the step that rejects it appends no usage record, updates
\* no last_used and increments no daily_usage.
C6_GateBeforeUpstream ==
    [][\A p \in GProcs :
          gresp'[p] \in {401, 429} =>
              /\ gpc'[p] = "done"
              /\ gcalls'[p] = 0
              /\ gresp[p] # gresp'[p] =>
                    /\ usage_logs' = usage_logs
                    /\ \A r \in api_keys : \E r2 \in api_keys' :
                          /\ r2.id = r.id
                          /\ r2.last_used = r.last_used
                          /\ r2.daily_usage <= r.daily_usage]_vars

\* one request was answered 401 and another 429; neither has called the
\* upstream
C6_Witness ==
    \E p, q \in GProcs :
        /\ gresp[p] = 401
        /\ gresp[q] = 429
        /\ gcalls[p] = 0
        /\ gcalls[q] = 0

\* C12: when the upstream call has succeeded and the store write of the usage
\* recording fails, the caller still receives the upstream's successful
\* response.
C12_UsageFailureSwallowed ==
    \A p \in GProcs :
        (gpc[p] = "done" /\ gup[p] = 200 /\ gstore[p] = "failed") =>
            gresp[p] = 200

\* C13: every upstream answer that is received is passed on with its own
\* status code, and the gateway's own error status 500 is sent only when the
\* upstream call itself failed.
C13_StatusPassThrough ==
    \A p \in GProcs :
        gpc[p] = "done" =>
            /\ gup[p] > 0 => gresp[p] = gup[p]
            /\ gresp[p] = 500 => gup[p] = 0

\* Request p is the first to present its secret since the credential was
\* created: any other request with that secret came before and was answered
\* 401.
FirstWithKey(p, client_key) ==
    \A q \in GProcs \ {p} :
        gpc[q] = "idle" \/ gkey[q] # client_key \/ gresp[q] = 401

\* C14: round trip.  Right after POST /api/v1/keys has returned a secret,
\* validate_api_key finds that credential by the secret, active and with
\* daily_usage 0, and the gate lets its secret through when rate_limit is
\* positive; and the first request that presents a created secret is let
\* through whenever rate_limit is positive.
C14_CreateValidateRoundTrip ==
    [][/\ \A k \in created' \ created :
             /\ Cardinality(validate_api_key(api_keys', k)) = 1
             /\ \A u \in validate_api_key(api_keys', k) :
                   /\ u.daily_usage = 0
                   /\ u.rate_limit > 0 =>
                         validate_and_check_rate_limit(api_keys', k,
                                                       today').status = 0
       /\ \A p \in GProcs :
             (GateStep(p) /\ gkey'[p] \in created
                  /\ FirstWithKey(p, gkey'[p])) =>
                /\ ActiveRowsOf(api_keys, gkey'[p]) # {}
                /\ \A r \in ActiveRowsOf(api_keys, gkey'[p]) :
                      /\ r.daily_usage = 0
                      /\ r.rate_limit > 0 =>
                            (gpc'[p] \in {"upstream", "body"}
                                /\ gresp'[p] = 0)]_vars

\* a secret was answered 401 before its credential existed; the credential was
\* then created with a positive rate_limit, and the next request with the
\* secret is past the gate
C14_Witness ==
    \E p, q \in GProcs :
        /\ gresp[q] = 401
        /\ gkey[p] = gkey[q]
        /\ gkey[p] \in created
        /\ gpc[p] \in {"upstream", "body"}
        /\ \E r \in ActiveRowsOf(api_keys, gkey[p]) :
              r.rate_limit > 0 /\ r.daily_usage = 0

\* Requests p and q race through the gate: both have passed it for the same
\* credential on a token-charged route and neither has ended, while the stored
\* daily_usage is below rate_limit and two costs of at least 1 take it to or
\* past the limit.
RacedPastGate(p, q) ==
    /\ p # q
    /\ gpc[p] \in {"upstream", "body"}
    /\ gpc[q] \in {"upstream", "body"}
    /\ guser[p] = guser[q]
    /\ gendpoint[p] \in TokenRoutes
    /\ gendpoint[q] \in TokenRoutes
    /\ \E r \in api_keys :
          /\ r.id = guser[p]
          /\ r.daily_usage < r.rate_limit
          /\ r.daily_usage + 2 >= r.rate_limit

\* C15: quota admission race.  Two concurrent requests of one credential that
\* have both passed the gate on the same stored daily_usage, before either has
\* recorded its usage, are both forwarded upstream: the next step of each is
\* its upstream call.
C15_AdmissionRace ==
    [][\A p, q \in GProcs :
          (RacedPastGate(p, q) /\ gpc'[p] # gpc[p]) => gcalls'[p] = 1]_vars

\* ============================================ claims on the load balancer
AllUnhealthy(hs) == \A g \in GatewaySet : ~hs[g]

\* Handler p of proxy_all makes its routing decision in this step: its
\* update_health_status returns and select_gateway runs.
RoutingStep(p) ==
    /\ lpc[p] \in {"idle", "probing"}
    /\ lpc'[p] \in {"upstream", "done"}
    /\ lkind'[p] = "proxy"

\* The probe that handler p awaits returns in this step.
ProbeReturns(p) ==
    /\ lpc[p] = "probing"
    /\ (lpc'[p] # "probing" \/ lidx'[p] # lidx[p])

\* The position of a gateway in the registration order.
IndexOf(g) == CHOOSE i \in 1..Len(Gateways) : Gateways[i] = g

\* C7: when every gateway is marked unhealthy at the routing decision, the
\* request is answered 503, no gateway is chosen, no counter moves and no
\* upstream call is issued.
C7_NoHealthyBackend ==
    [][\A p \in LProcs :
          (RoutingStep(p) /\ AllUnhealthy(health_status')) =>
              /\ lpc'[p] = "done"
              /\ lresp'[p] = 503
              /\ lsel'[p] = ""
              /\ lcalls'[p] = 0
              /\ request_counts' = request_counts]_vars

\* a proxied request was answered 503 without an upstream call while every
\* gateway is marked unhealthy
C7_Witness ==
    \E p \in LProcs :
        /\ lkind[p] = "proxy"
        /\ lpc[p] = "done"
        /\ lresp[p] = 503
        /\ lcalls[p] = 0
        /\ AllUnhealthy(health_status)

\* C8: under every strategy but random, select_gateway returns the healthy
\* gateway with the smallest counter, the first such one in registration
\* order, and adds 1 to that counter and to no other.
C8_LeastLoadedFirst ==
    [][(strategy_in' # strategy_in /\ strategy_in' # "random"
            /\ ~AllUnhealthy(health_status)) =>
          LET g == selected_out'.selected
          IN  /\ selected_out'.status = 0
              /\ g \in GatewaySet
              /\ health_status[g]
              /\ \A h \in GatewaySet :
                    health_status[h] =>
                        /\ request_counts[g] <= request_counts[h]
                        /\ IndexOf(h) < IndexOf(g) =>
                              request_counts[g] < request_counts[h]
              /\ request_counts' =
                    [request_counts EXCEPT ![g] = request_counts[g] + 1]]_vars

\* counters {5, 3, 3}, all healthy, an unrecognized strategy name: the second
\* gateway was returned and its counter is now 4
C8_Witness ==
    /\ strategy_in = "weighted"
    /\ selected_out.selected = Gateways[2]
    /\ \A g \in GatewaySet : health_status[g]
    /\ request_counts[Gateways[1]] = 5
    /\ request_counts[Gateways[2]] = 4
    /\ request_counts[Gateways[3]] = 3

\* C9: a probe of gateway X that fails (exception or an answer other than 200)
\* sets health_status[X] to False, one that succeeds sets it to True, and
\* either leaves the flag of every other gateway as it was.
C9_ProbeSetsOwnFlag ==
    [][\A p \in LProcs :
          ProbeReturns(p) =>
              LET x == Gateways[lidx[p]]
              IN  /\ lprobe'[p] # 200 => ~health_status'[x]
                  /\ lprobe'[p] = 200 => health_status'[x]
                  /\ \A h \in GatewaySet \ {x} :
                        health_status'[h] = health_status[h]]_vars

\* the last probe of the startup event, the one of the third gateway, failed;
\* that gateway was probed again after the interval and is marked healthy,
\* while another gateway is still marked unhealthy
C9_Witness ==
    /\ lpc[0] = "done"
    /\ lprobe[0] # 200
    /\ health_status[Gateways[3]]
    /\ last_health_check[Gateways[3]] - lcur[0] > health_check_interval
    /\ ~health_status[Gateways[1]]

\* C10: when the upstream call of a forwarded request fails, the caller is
\* answered 502.
C10_UpstreamError502 ==
    \A p \in LProcs :
        (lpc[p] = "done" /\ lup[p] = 0) => lresp[p] = 502

\* C11: no retry and no failover.  A proxied request makes at most one
\* selection and issues at most one upstream call, to the gateway that was
\* selected; once a gateway is selected neither the selection nor the number
\* of calls changes, and once the upstream call has ended (failed or not) the
\* handler is done and takes no further step.
C11_NoRetryNoFailover ==
    [][\A p \in LProcs :
          /\ lcalls'[p] <= 1
          /\ lcalls'[p] = 1 =>
                (lsel'[p] \in GatewaySet /\ lgateway'[p] = lsel'[p])
          /\ lsel[p] # "" =>
                /\ lsel'[p] = lsel[p]
                /\ lgateway'[p] = lgateway[p]
                /\ lcalls'[p] = lcalls[p]
          /\ lup[p] # -1 =>
                /\ lpc[p] = "done"
                /\ lpc'[p] = "done"
                /\ lresp'[p] = lresp[p]]_vars

\* the upstream call of a request failed and the request is over with that one
\* call, while both other gateways are marked healthy and were never routed to
C11_Witness ==
    \E p \in LProcs :
        /\ lpc[p] = "done"
        /\ lup[p] = 0
        /\ lcalls[p] = 1
        /\ lgateway[p] = lsel[p]
        /\ \A g \in GatewaySet \ {lsel[p]} :
              health_status[g] /\ request_counts[g] = 0

\* Two proxied requests are past their selection and both await the upstream:
\* their selections were concurrent.
ConcurrentSelections(p, q) ==
    /\ p # q
    /\ lpc[p] = "upstream"
    /\ lpc[q] = "upstream"

\* C16 as claimed: selection race.  Two concurrent selections that pick the
\* same backend read the same minimum counter value, neither seeing the
\* other's increment.
C16_SelectionRace ==
    \A p, q \in LProcs :
        (ConcurrentSelections(p, q) /\ lsel[p] = lsel[q]) => lmin[p] = lmin[q]

\* C16 as amended: no selection race.  select_gateway reads the minimum
\* counter and increments it in one step, so no two requests ever read the
\* same counter value for the same backend: of two requests that picked the
\* same backend, the later one read the value the earlier one had left.
C16_SelectionsSerialized ==
    [][\A p \in LProcs :
          /\ (lsel'[p] # lsel[p]) =>
                /\ lmin'[p] = request_counts[lsel'[p]]
                /\ request_counts'[lsel'[p]] = lmin'[p] + 1
          /\ \A q \in LProcs \ {p} :
                (lsel'[p] # "" /\ lsel'[p] = lsel'[q]) =>
                    lmin'[p] # lmin'[q]]_vars

\* two requests await the upstream at the same time, both routed to the same
\* gateway: one read its counter as 0, the other as 1, and it stands at 2
C16_Witness ==
    \E p, q \in LProcs :
        /\ ConcurrentSelections(p, q)
        /\ lsel[p] = lsel[q]
        /\ lmin[p] = 0
        /\ lmin[q] = 1
        /\ request_counts[lsel[p]] = 2

\* Handler p issues a probe of the i-th gateway in this step.
ProbeIssued(p, i) ==
    /\ lpc'[p] = "probing"
    /\ lidx'[p] = i
    /\ (lpc[p] # "probing" \/ lidx[p] # i)

\* C17: redundant probes.  Issuing a probe of a backend leaves that backend's
\* last_health_check as it was (it is written when the probe has returned),
\* so the backend stays due for every request that arrives while the probe is
\* in flight, and several requests can probe it within one interval.
C17_ProbeStampedOnReturn ==
    [][\A p \in LProcs : \A i \in 1..Len(Gateways) :
          ProbeIssued(p, i) =>
              /\ last_health_check'[Gateways[i]] =
                    last_health_check[Gateways[i]]
              /\ Due(Gateways[i], lcur'[p], last_health_check')]_vars

\* two requests that arrived within one interval of each other, after the
\* interval of a backend had elapsed, both have a probe of that backend in
\* flight
C17_Witness ==
    \E p, q \in LProcs \ {0} :
        /\ p # q
        /\ lpc[p] = "probing"
        /\ lpc[q] = "probing"
        /\ lidx[p] = lidx[q]
        /\ lcur[q] - lcur[p] \in 0..health_check_interval
        /\ Due(Gateways[lidx[p]], lcur[p], last_health_check)

\* C18: probe throttling.  A backend is probed only when more than
\* health_check_interval has passed since its last_health_check, and a
\* backend's last_health_check and health flag change only in the step in
\* which a probe of that backend returns; a backend that is skipped keeps
\* both.
C18_ProbeThrottling ==
    [][/\ \A p \in LProcs : \A i \in 1..Len(Gateways) :
             ProbeIssued(p, i) =>
                 /\ lcur'[p] - last_health_check[Gateways[i]]
                        > health_check_interval
                 /\ now - last_health_check[Gateways[i]]
                        > health_check_interval
       /\ \A g \in GatewaySet :
             (last_health_check'[g] # last_health_check[g]
                  \/ health_status'[g] # health_status[g]) =>
                 \E p \in LProcs :
                     ProbeReturns(p) /\ Gateways[lidx[p]] = g]_vars

\* a request arrived exactly health_check_interval after the last probe of
\* every backend and was answered without a probe; the probe times are still
\* those of the startup event
C18_Witness ==
    \E p \in LProcs \ {0} :
        /\ lpc[p] = "done"
        /\ lprobe[p] = -1
        /\ \A g \in GatewaySet :
              /\ lcur[p] - last_health_check[g] = health_check_interval
              /\ last_health_check[g] = lcur[0]

\* C19: the random strategy returns one of the gateways marked healthy and
\* leaves every routed-request counter as it was.
C19_RandomLeavesCounters ==
    [][(strategy_in' # strategy_in /\ strategy_in' = "random"
            /\ ~AllUnhealthy(health_status)) =>
          /\ selected_out'.status = 0
          /\ selected_out'.selected \in GatewaySet
          /\ health_status[selected_out'.selected]
          /\ request_counts' = request_counts]_vars

\* the random strategy returned the third gateway, the most loaded of the two
\* healthy ones (counters 0 and 5, the second gateway unhealthy), and the
\* counters are as before
C19_Witness ==
    /\ strategy_in = "random"
    /\ selected_out.selected = Gateways[3]
    /\ health_status[Gateways[1]]
    /\ ~health_status[Gateways[2]]
    /\ health_status[Gateways[3]]
    /\ request_counts[Gateways[1]] = 0
    /\ request_counts[Gateways[3]] = 5

\* C20: the routed-request counters are cumulative.  No counter ever
\* decreases; the step in which a request is given a backend adds exactly 1
\* to that backend's counter and leaves the others; every other step (a
\* refresh, a status query, a 503 rejection, the end of an upstream call,
\* failed or not) leaves all counters as they were; and the counters always
\* add up to the number of requests that were given a backend.
C20_CountersCumulative ==
    [][/\ \A g \in GatewaySet : request_counts'[g] >= request_counts[g]
       /\ \A p \in LProcs :
             lsel'[p] # lsel[p] =>
                 request_counts' =
                     [request_counts EXCEPT ![lsel'[p]] = @ + 1]
       /\ (\A p \in LProcs : lsel'[p] = lsel[p]) =>
             request_counts' = request_counts
       /\ SumCounts(request_counts', 1) =
             Cardinality({p \in LProcs : lsel'[p] # ""})]_vars

\* one request was routed and its upstream call failed, a later one was
\* rejected with 503 after a refresh: the counter of the first one's backend
\* stands at 1 and the counters add up to 1
C20_Witness ==
    \E p, q \in LProcs :
        /\ lup[p] = 0
        /\ request_counts[lsel[p]] = 1
        /\ lkind[q] = "proxy"
        /\ lresp[q] = 503
        /\ lsel[q] = ""
        /\ lprobe[q] # -1
        /\ SumCounts(request_counts, 1) = 1

\* No two counters differ by more than 1.
Balanced(counts) ==
    \A g, h \in GatewaySet : counts[g] - counts[h] <= 1

\* C21: balance under full health.  The counters start balanced, and a
\* selection made while every backend is marked healthy keeps them balanced,
\* whichever request makes it and whatever the other requests are doing; as no
\* other step moves a counter, the counters of any two backends differ by at
\* most 1 for as long as every health flag has stayed true.
C21_BalancedUnderFullHealth ==
    /\ Balanced(request_counts)
    /\ [][\A p \in LProcs :
             (lsel'[p] # lsel[p]
                  /\ (\A g \in GatewaySet : health_status'[g])
                  /\ Balanced(request_counts)) =>
                 Balanced(request_counts')]_vars

\* two requests were routed one while the other awaited its upstream, every
\* backend is marked healthy and has passed every probe so far: the first two
\* backends have one request each
C21_Witness ==
    /\ \A g \in GatewaySet : health_status[g]
    /\ \A p \in LProcs : lprobe[p] \in {-1, 200}
    /\ \E p, q \in LProcs : ConcurrentSelections(p, q)
    /\ request_counts[Gateways[1]] = 1
    /\ request_counts[Gateways[2]] = 1
    /\ request_counts[Gateways[3]] = 0

\* Every refresh probes the first backend as it starts (when it is due), so
\* the probes of that backend are issued in the order in which the requests
\* arrived.  The probe of it that request p issued returns in this step,
\* after the one that the later request q issued has returned.
StaleReturn(p, q) ==
    /\ p < q
    /\ ProbeReturns(p)
    /\ lidx[p] = 1
    /\ lprobe[q] # -1
    /\ (lpc[q] # "probing" \/ lidx[q] > 1)

\* C22 as claimed: no stale health overwrite.  The result of an
\* earlier-issued probe never overwrites that of a later-issued one: when it
\* returns last, the health flag stays as the later-issued probe left it.
C22_NoStaleOverwrite ==
    [][\A p, q \in LProcs :
          StaleReturn(p, q) =>
              health_status'[Gateways[1]] = health_status[Gateways[1]]]_vars

\* C22 as amended: the last return wins.  When two refreshes probe the same
\* backend concurrently, the health flag (and last_health_check) is written
\* by each probe as it returns, so once both have finished it holds the
\* result of the probe that returned last, also when that probe was issued
\* first.
C22_LastReturnWins ==
    [][\A p, q \in LProcs :
          StaleReturn(p, q) =>
              /\ health_status'[Gateways[1]] = (lprobe'[p] = 200)
              /\ last_health_check'[Gateways[1]] = lcur[p]]_vars

\* two requests probed the first backend concurrently and both probes have
\* returned (both are now probing the second backend): the probe issued
\* later succeeded, the one issued first failed, and the backend is marked
\* unhealthy
C22_Witness ==
    \E p, q \in LProcs :
        /\ p < q
        /\ lpc[p] = "probing"
        /\ lpc[q] = "probing"
        /\ lidx[p] = 2
        /\ lidx[q] = 2
        /\ lprobe[q] = 200
        /\ lprobe[p] \notin {-1, 200}
        /\ ~health_status[Gateways[1]]

\* A request or a status query arrives in this step.
Arrival ==
    \E p \in LProcs \ {0} : lpc[p] = "idle" /\ lpc'[p] # "idle"

\* No probe of backend x that returns in this step has failed.
ProbesSucceed(x) ==
    \A p \in LProcs :
        (ProbeReturns(p) /\ Gateways[lidx[p]] = x) => lprobe'[p] = 200

\* C23: no permanent exclusion.  If requests or status queries keep arriving
\* and from some point on every probe of backend x succeeds, then from some
\* point on x is marked healthy (and so is among the backends select_gateway
\* chooses from), whatever the flags were: also when every backend was marked
\* unhealthy and every routed request was rejected with 503.
C23_NoPermanentExclusion ==
    \A x \in GatewaySet :
        (([]<><<Arrival>>_vars) /\ (<>[][ProbesSucceed(x)]_vars))
            => <>[](health_status[x]
                      /\ \E i \in 1..Len(get_healthy_gateways(health_status)) :
                            get_healthy_gateways(health_status)[i] = x)

\* The startup event's last probe failed and left the last backend marked
\* unhealthy; a later request found the other two unhealthy as well, its own
\* probe of the last backend succeeded, and the request was routed to it.
C23_Witness ==
    /\ lpc[0] = "done"
    /\ lprobe[0] \notin {-1, 200}
    /\ \E p \in LProcs \ {0} :
          /\ lkind[p] = "proxy"
          /\ lpc[p] = "upstream"
          /\ lprobe[p] = 200
          /\ lcur[p] > StartTime
          /\ lsel[p] = Gateways[Len(Gateways)]
    /\ \A g \in GatewaySet :
          health_status[g] <=> g = Gateways[Len(Gateways)]

====
